---- MODULE Spec2Model ----
(***************************************************************************)
(* Job orchestration layer of the COLMAP processing API (src/api/api.py). *)
(*                                                                         *)
(* Execution model.  The endpoints are `async def` coroutines without any *)
(* await: the event loop runs one handler at a time, so handlers never    *)
(* interleave with each other.  run_colmap_script is a plain function      *)
(* given to BackgroundTasks: it runs on a worker thread once the response  *)
(* of its submission has been sent, concurrently with the event loop and   *)
(* with the other worker threads.  A handler therefore is a sequence of    *)
(* steps, one per access to PROCESSING_JOBS, between which worker threads  *)
(* may write the registry.                                                 *)
(*                                                                         *)
(* The module is taken as imported with its endpoints registered.  The    *)
(* two upload endpoints (lines 100-133) use names the file never imports  *)
(* (UploadFile, File, Form, aiofiles); they do not touch PROCESSING_JOBS   *)
(* and are not part of this model.                                         *)
(***************************************************************************)
EXTENDS Integers, Sequences, FiniteSets, TLC

\* ------------------------------------------------------------------ bounds
\* Number of job identifiers uuid4 may draw from (stands for the 2^122 uuids).
MaxJobs == 2
\* Cap of the per-identifier history counters (terminal writes, processes
\* spawned, config files written).
MaxWrites == 2

JobIds == 1..MaxJobs

\* ------------------------------------------------------------- constants
WORKSPACE_BASE == <<"workspace">>
INGEST_DIR == WORKSPACE_BASE \o <<"ingest">>
COLMAP_WORKSPACE == WORKSPACE_BASE \o <<"colmap_workspace">>
NERFSTUDIO_OUTPUT == WORKSPACE_BASE \o <<"nerfstudio_dataset">>

\* Python's None, for a path and for a message.
None == <<>>
NoMessage == "None"

\* os.path.join(base, name) on paths kept as sequences of segments.
PathJoin(base, name) == Append(base, name)

\* str(uuid.uuid4()): the text of the identifier named job_id.
JobIdStr(job_id) == ToString(job_id)

\* p is q or an ancestor directory of q.
IsPrefix(p, q) == Len(p) <= Len(q) /\ SubSeq(q, 1, Len(p)) = p

\* The per-job locations: line 142 (input_dir), line 65, line 66 and 83.
\* A variant that stages every job's input in the ingest root itself.
InputDirShared(job_id) == INGEST_DIR

InputDir(job_id) == PathJoin(INGEST_DIR, JobIdStr(job_id))
WorkspaceDir(job_id) == PathJoin(COLMAP_WORKSPACE, JobIdStr(job_id))
OutputDir(job_id) == PathJoin(NERFSTUDIO_OUTPUT, JobIdStr(job_id))

\* ProcessingRequest defaults of the fields passed through to colmap.sh.
DefaultGpu == "auto"
DefaultRenderPipeline == "default"
DefaultScale == "default"

\* request.input_path: a directory, a file, or a path that does not exist.
InputPaths == {"dir", "file", "missing"}
\* request.config: None, an empty dict, a non-empty dict.
Configs == {"null", "empty", "nonempty"}
\* request.mode
Modes == {"batch", "daemon"}

MsgQueued == "Job is queued for processing"
MsgCompleted == "Processing completed successfully"
\* result.stderr of a process that exited non-zero
MsgStderr == "no images found"
\* str(e) of the exception raised by open()/json.dump() and by subprocess.run
MsgConfigError == "config write failed"
MsgLaunchError == "launch failed"

VARIABLES
    registry,    \* PROCESSING_JOBS: job_id -> [status, message, output_path]
    keys,        \* insertion order of PROCESSING_JOBS (dict iteration order)
    generated,   \* identifiers uuid4 has returned so far
    uuidUnique,  \* whether uuid4 never repeats a value (its practical guarantee)
    threads,     \* background tasks, in the order add_task scheduled them
    ev,          \* the event loop: the handler in progress and its locals
    http,        \* the response of the request in progress / last served
    seen,        \* history: values the queried part of the registry has held
                 \* since the query in progress was received
    twrites,     \* history: terminal writes made so far, per identifier
    fs,          \* directories and files the program has created, with the
                 \* job whose handler or task created each
    returned,    \* history: identifiers returned by successful submissions
    spawns,      \* history: external processes spawned so far, per identifier
    cfgwrites    \* history: config files written so far, per identifier

\* What the program does outside of the registry, and its history.
effects == <<fs, returned, spawns, cfgwrites>>

vars == <<registry, keys, generated, uuidUnique, threads, ev, http, seen, twrites,
          fs, returned, spawns, cfgwrites>>

\* ------------------------------------------------------------ job records
QueuedRecord ==
    [status |-> "queued", message |-> MsgQueued, output_path |-> None]

CompletedRecordNoPath(job_id) ==
    [status |-> "completed", message |-> MsgCompleted, output_path |-> None]

CompletedRecord(job_id) ==
    [status |-> "completed", message |-> MsgCompleted,
     output_path |-> PathJoin(NERFSTUDIO_OUTPUT, JobIdStr(job_id))]

FailedRecord(msg) ==
    [status |-> "failed", message |-> msg, output_path |-> None]

Terminal(rec) == rec.status \in {"completed", "failed"}

\* A variant that rebinds the registry to a dict holding the one record.
SetItemOnly(reg, job_id, rec) == [k \in {job_id} |-> rec]

\* PROCESSING_JOBS[job_id] = rec
SetItem(reg, job_id, rec) ==
    [k \in DOMAIN reg \cup {job_id} |-> IF k = job_id THEN rec ELSE reg[k]]

\* dict insertion order after PROCESSING_JOBS[job_id] = ...
KeysAfter(ks, reg, job_id) ==
    IF job_id \in DOMAIN reg THEN ks ELSE Append(ks, job_id)

\* ------------------------------------------------------------- event loop
EvIdle ==
    [op |-> "idle", pc |-> "idle", job_id |-> 0, input_path |-> "null",
     config |-> "null", mode |-> "null", status |-> "null", message |-> NoMessage,
     idx |-> 0, result |-> <<>>]

NoResponse ==
    [op |-> "none", code |-> 0, job_id |-> 0, status |-> "null",
     message |-> NoMessage, output_path |-> None, jobs |-> <<>>]

Response(op, code) == [NoResponse EXCEPT !.op = op, !.code = code]

\* History bookkeeping of a registry write, for the query in progress.
Observe(job_id, rec, newReg) ==
    IF ev.op = "status" /\ ev.job_id = job_id THEN seen \cup {rec}
    ELSE IF ev.op = "jobs" THEN seen \cup {newReg}
    ELSE seen

CountWrite(job_id) ==
    [twrites EXCEPT ![job_id] = IF @ < MaxWrites THEN @ + 1 ELSE @]

\* History bookkeeping: one more process spawned / config file written.
Count(counter, job_id) ==
    [counter EXCEPT ![job_id] = IF @ < MaxWrites THEN @ + 1 ELSE @]

\* A file or directory created on behalf of job_id.
FsEntry(path, kind, job_id) == [path |-> path, kind |-> kind, job |-> job_id]

\* uuid.uuid4(): a random identifier.  Identifiers are opaque and only ever
\* compared for equality, so the k-th distinct value uuid4 returns is named k.
\* A unique uuid4 returns a value it never returned; one that may collide
\* returns a new value or repeats an old one.
NextNewId == Cardinality(generated) + 1

generate_job_id_reuse == 1..(IF NextNewId <= MaxJobs THEN NextNewId ELSE MaxJobs)

generate_job_id ==
    IF uuidUnique
    THEN {NextNewId} \cap JobIds
    ELSE 1..(IF NextNewId <= MaxJobs THEN NextNewId ELSE MaxJobs)


\* ------------------------------------------------------- start_processing
\* POST /process arrives with an already parsed ProcessingRequest.
receive_process(input_path, config, mode) ==
    /\ ev.op = "idle"
    /\ Len(threads) < MaxJobs
    /\ generate_job_id # {}
    /\ ev' = [EvIdle EXCEPT !.op = "process", !.pc = "L139",
                            !.input_path = input_path, !.config = config,
                            !.mode = mode]
    /\ http' = NoResponse
    /\ seen' = {}
    /\ UNCHANGED <<registry, keys, generated, uuidUnique, threads, twrites,
                   effects>>

\* A variant that registers the job before staging its input.
start_processing_L139_register_first ==
    /\ ev.op = "process" /\ ev.pc = "L139"
    /\ \E job_id \in generate_job_id :
         /\ generated' = generated \cup {job_id}
         /\ fs' = fs \cup {FsEntry(InputDir(job_id), "dir", job_id)}
         /\ registry' = SetItem(registry, job_id, QueuedRecord)
         /\ keys' = KeysAfter(keys, registry, job_id)
         /\ IF ev.input_path = "missing"
            THEN /\ ev' = EvIdle
                 /\ http' = Response("process", 500)
            ELSE /\ ev' = [ev EXCEPT !.pc = "L163", !.job_id = job_id]
                 /\ http' = http
    /\ UNCHANGED <<uuidUnique, threads, seen, twrites, returned, spawns,
                   cfgwrites>>

\* Lines 139-160: generate the identifier, create the ingest directory
\* (os.makedirs, line 143), copy the input.  shutil.copy raises for a path that
\* is neither a directory nor a file; the exception leaves the handler (HTTP
\* 500) before line 163, with the ingest directory already created.
start_processing_L139 ==
    /\ ev.op = "process" /\ ev.pc = "L139"
    /\ \E job_id \in generate_job_id :
         /\ generated' = generated \cup {job_id}
         /\ fs' = fs \cup {FsEntry(InputDir(job_id), "dir", job_id)}
         /\ IF ev.input_path = "missing"
            THEN /\ ev' = EvIdle
                 /\ http' = Response("process", 500)
            ELSE /\ ev' = [ev EXCEPT !.pc = "L163", !.job_id = job_id]
                 /\ http' = http
    /\ UNCHANGED <<registry, keys, uuidUnique, threads, seen, twrites,
                   returned, spawns, cfgwrites>>

\* A variant that schedules the task without registering the job.
start_processing_L163_unregistered ==
    /\ ev.op = "process" /\ ev.pc = "L163"
    /\ ev' = [ev EXCEPT !.pc = "L170"]
    /\ UNCHANGED <<registry, keys, seen, generated, uuidUnique, threads, http,
                   twrites, effects>>

\* Lines 163-167: PROCESSING_JOBS[job_id] = {"status": "queued", ...}
start_processing_L163 ==
    /\ ev.op = "process" /\ ev.pc = "L163"
    /\ registry' = SetItem(registry, ev.job_id, QueuedRecord)
    /\ keys' = KeysAfter(keys, registry, ev.job_id)
    /\ seen' = Observe(ev.job_id, QueuedRecord, registry')
    /\ ev' = [ev EXCEPT !.pc = "L170"]
    /\ UNCHANGED <<generated, uuidUnique, threads, http, twrites, effects>>

\* job_params (lines 152-160) as handed to the background task, with the
\* task's position and locals.
NewTask(job_id, config, mode) ==
    [job_id |-> job_id, config |-> config, mode |-> mode, pc |-> "added",
     config_file |-> None, cmd |-> <<>>, proc |-> "none", returncode |-> 0,
     stderr |-> NoMessage, e |-> NoMessage]

\* Line 170: background_tasks.add_task(run_colmap_script, job_params)
start_processing_L170 ==
    /\ ev.op = "process" /\ ev.pc = "L170"
    /\ threads' = Append(threads, NewTask(ev.job_id, ev.config, ev.mode))
    /\ ev' = [ev EXCEPT !.pc = "L174"]
    /\ UNCHANGED <<registry, keys, generated, uuidUnique, http, seen, twrites,
                   effects>>

\* Line 174: "status": PROCESSING_JOBS[job_id]["status"]
start_processing_L174 ==
    /\ ev.op = "process" /\ ev.pc = "L174"
    /\ ev' = [ev EXCEPT !.pc = "L175", !.status = registry[ev.job_id].status]
    /\ UNCHANGED <<registry, keys, generated, uuidUnique, threads, http, seen,
                   twrites, effects>>

\* Lines 175-176: "message": PROCESSING_JOBS[job_id]["message"]; return.
\* JobStatus fills the output_path the handler does not give with None.
start_processing_L175 ==
    /\ ev.op = "process" /\ ev.pc = "L175"
    /\ http' = [Response("process", 200) EXCEPT
                  !.job_id = ev.job_id, !.status = ev.status,
                  !.message = registry[ev.job_id].message]
    /\ returned' = returned \cup {ev.job_id}
    /\ ev' = EvIdle
    /\ UNCHANGED <<registry, keys, generated, uuidUnique, threads, seen,
                   twrites, fs, spawns, cfgwrites>>

\* ------------------------------------------------------- run_colmap_script
\* BackgroundTasks run after the response has been sent: the task a handler
\* added cannot start while that handler is still building its response.
TaskMayStartAtOnce(t) == TRUE

TaskMayStart(t) ==
    ~(ev.op = "process" /\ ev.pc \in {"L174", "L175"} /\ t = Len(threads))

\* A variant that gives every job the same config file.
ConfigPathShared(job_id) == PathJoin(COLMAP_WORKSPACE, "config.json")

\* Line 55: os.path.join(COLMAP_WORKSPACE, f"config_{params['job_id']}.json")
ConfigPath(job_id) ==
    PathJoin(COLMAP_WORKSPACE, "config_" \o JobIdStr(job_id) \o ".json")

\* One argument of the argument vector that is not a path.
Arg(s) == <<s>>

\* Lines 61-73: the argument vector, each element a path or Arg(text).
Cmd(job_id, mode, config_file) ==
    << <<"workspace", "colmap.sh">>,
       IF mode = "batch" THEN Arg("--batch") ELSE Arg("--daemon"),
       Arg("--ingest-dir"), InputDir(job_id),
       Arg("--colmap-workspace"), PathJoin(COLMAP_WORKSPACE, JobIdStr(job_id)),
       Arg("--nerfstudio-output"), PathJoin(NERFSTUDIO_OUTPUT, JobIdStr(job_id)),
       Arg("--gpu"), Arg(DefaultGpu),
       Arg("--render-pipeline"), Arg(DefaultRenderPipeline),
       Arg("--scale"), Arg(DefaultScale) >>
    \o (IF config_file # None THEN <<Arg("--config"), config_file>> ELSE <<>>)


\* The task's record once run_colmap_script has returned: its frame is gone.
Returned(job_id) == [NewTask(job_id, "null", "null") EXCEPT !.pc = "done"]

\* The task's record once control is at the update statements (line 79 or
\* line 92): of the frame, only what lines 79-96 still read is kept.
AtUpdate(job_id, pc, returncode, stderr, e) ==
    [NewTask(job_id, "null", "null") EXCEPT !.pc = pc, !.returncode = returncode,
                                            !.stderr = stderr, !.e = e]

\* A variant that names the config file without having written it.
run_colmap_script_L54_deferred_write(t) ==
    /\ t \in 1..Len(threads)
    /\ threads[t].pc = "added"
    /\ TaskMayStart(t)
    /\ \/ /\ threads[t].config = "nonempty"
          /\ \/ /\ threads' = [threads EXCEPT ![t].pc = "L76",
                                 ![t].config_file = ConfigPath(threads[t].job_id)]
                /\ UNCHANGED <<fs, cfgwrites>>
             \/ /\ threads' = [threads EXCEPT ![t] =
                                 AtUpdate(threads[t].job_id, "L92", 0, NoMessage,
                                          MsgConfigError)]
                /\ UNCHANGED <<fs, cfgwrites>>
       \/ /\ threads[t].config # "nonempty"
          /\ threads' = [threads EXCEPT ![t].pc = "L76"]
          /\ UNCHANGED <<fs, cfgwrites>>
    /\ UNCHANGED <<registry, keys, generated, uuidUnique, ev, http, seen,
                   twrites, returned, spawns>>

\* A variant that marks the job "running" when its task starts.
run_colmap_script_L54_running(t) ==
    /\ t \in 1..Len(threads)
    /\ threads[t].pc = "added"
    /\ TaskMayStart(t)
    /\ \/ /\ threads[t].config = "nonempty"
          /\ \/ /\ threads' = [threads EXCEPT ![t].pc = "L76",
                                 ![t].config_file = ConfigPath(threads[t].job_id)]
                /\ fs' = fs \cup {FsEntry(ConfigPath(threads[t].job_id), "file",
                                          threads[t].job_id)}
                /\ cfgwrites' = Count(cfgwrites, threads[t].job_id)
             \/ /\ threads' = [threads EXCEPT ![t] =
                                 AtUpdate(threads[t].job_id, "L92", 0, NoMessage,
                                          MsgConfigError)]
                /\ UNCHANGED <<fs, cfgwrites>>
       \/ /\ threads[t].config # "nonempty"
          /\ threads' = [threads EXCEPT ![t].pc = "L76"]
          /\ UNCHANGED <<fs, cfgwrites>>
    /\ registry' = SetItem(registry, threads[t].job_id,
                           [QueuedRecord EXCEPT !.status = "running"])
    /\ UNCHANGED <<keys, generated, uuidUnique, ev, http, seen, twrites,
                   returned, spawns>>

\* Lines 51-58: the task starts; a truthy config is dumped to config_path.
\* open()/json.dump may raise (COLMAP_WORKSPACE is never created here).
run_colmap_script_L54(t) ==
    /\ t \in 1..Len(threads)
    /\ threads[t].pc = "added"
    /\ TaskMayStart(t)
    /\ \/ /\ threads[t].config = "nonempty"
          /\ \/ /\ threads' = [threads EXCEPT ![t].pc = "L76",
                                 ![t].config_file = ConfigPath(threads[t].job_id)]
                /\ fs' = fs \cup {FsEntry(ConfigPath(threads[t].job_id), "file",
                                          threads[t].job_id)}
                /\ cfgwrites' = Count(cfgwrites, threads[t].job_id)
             \/ /\ threads' = [threads EXCEPT ![t] =
                                 AtUpdate(threads[t].job_id, "L92", 0, NoMessage,
                                          MsgConfigError)]
                /\ UNCHANGED <<fs, cfgwrites>>
       \/ /\ threads[t].config # "nonempty"
          /\ threads' = [threads EXCEPT ![t].pc = "L76"]
          /\ UNCHANGED <<fs, cfgwrites>>
    /\ UNCHANGED <<registry, keys, generated, uuidUnique, ev, http, seen,
                   twrites, returned, spawns>>

\* Lines 61-76: build cmd and call subprocess.run.  The launch may raise
\* (colmap.sh missing or not executable); otherwise the thread blocks.
run_colmap_script_L76_uncaught(t) ==
    /\ t \in 1..Len(threads)
    /\ threads[t].pc = "L76"
    /\ LET cmd == Cmd(threads[t].job_id, threads[t].mode, threads[t].config_file)
       IN \/ /\ threads' = [threads EXCEPT ![t].pc = "wait", ![t].cmd = cmd,
                                             ![t].proc = "running"]
             /\ spawns' = Count(spawns, threads[t].job_id)
          \/ /\ threads' = [threads EXCEPT ![t] = Returned(threads[t].job_id)]
             /\ spawns' = spawns
    /\ UNCHANGED <<registry, keys, generated, uuidUnique, ev, http, seen,
                   twrites, fs, returned, cfgwrites>>

run_colmap_script_L76(t) ==
    /\ t \in 1..Len(threads)
    /\ threads[t].pc = "L76"
    /\ LET cmd == Cmd(threads[t].job_id, threads[t].mode, threads[t].config_file)
       IN \/ /\ threads' = [threads EXCEPT ![t].pc = "wait", ![t].cmd = cmd,
                                             ![t].proc = "running"]
             /\ spawns' = Count(spawns, threads[t].job_id)
          \/ /\ threads' = [threads EXCEPT ![t] =
                              AtUpdate(threads[t].job_id, "L92", 0, NoMessage,
                                       MsgLaunchError)]
             /\ spawns' = spawns
    /\ UNCHANGED <<registry, keys, generated, uuidUnique, ev, http, seen,
                   twrites, fs, returned, cfgwrites>>

\* Line 76, continued: the external process exits with some return code and
\* subprocess.run returns.  subprocess.run is given no timeout: nothing in the
\* program makes this step happen.
subprocess_run_returns(t) ==
    /\ t \in 1..Len(threads)
    /\ threads[t].pc = "wait"
    /\ \E rc \in {0, 1} :
         threads' = [threads EXCEPT ![t] =
                       [AtUpdate(threads[t].job_id, "L79", rc,
                                 IF rc = 0 THEN "" ELSE MsgStderr, NoMessage)
                          EXCEPT !.proc = "exited"]]
    /\ UNCHANGED <<registry, keys, generated, uuidUnique, ev, http, seen,
                   twrites, effects>>

\* A variant that reports a fixed text instead of the captured stderr.
ResultRecordFixedText(job_id, returncode, stderr) ==
    IF returncode = 0 THEN CompletedRecord(job_id)
    ELSE FailedRecord("Processing failed")

\* The record lines 79-90 store for a return code and the captured stderr.
ResultRecord(job_id, returncode, stderr) ==
    IF returncode = 0 THEN CompletedRecord(job_id) ELSE FailedRecord(stderr)

\* A terminal write of the task t: PROCESSING_JOBS[params["job_id"]] = rec
TerminalWrite(t, rec, nextpc) ==
    /\ registry' = SetItem(registry, threads[t].job_id, rec)
    /\ keys' = KeysAfter(keys, registry, threads[t].job_id)
    /\ seen' = Observe(threads[t].job_id, rec, registry')
    /\ twrites' = CountWrite(threads[t].job_id)
    /\ threads' = [threads EXCEPT ![t] = IF nextpc = "done"
                                         THEN Returned(threads[t].job_id)
                                         ELSE [@ EXCEPT !.pc = nextpc]]
    /\ UNCHANGED <<generated, uuidUnique, ev, http, effects>>

\* A variant that tries the process again after a failure.
run_colmap_script_L79_retry(t) ==
    /\ t \in 1..Len(threads)
    /\ threads[t].pc = "L79"
    /\ TerminalWrite(t, ResultRecord(threads[t].job_id, threads[t].returncode,
                                  threads[t].stderr),
                     IF threads[t].returncode = 0 THEN "done" ELSE "L76")

\* Lines 79-90: the terminal record of a process that exited.
run_colmap_script_L79(t) ==
    /\ t \in 1..Len(threads)
    /\ threads[t].pc = "L79"
    /\ TerminalWrite(t, ResultRecord(threads[t].job_id, threads[t].returncode,
                                  threads[t].stderr),
                     "done")

\* Lines 91-96: the terminal record of an exception.
run_colmap_script_L92(t) ==
    /\ t \in 1..Len(threads)
    /\ threads[t].pc = "L92"
    /\ TerminalWrite(t, FailedRecord(threads[t].e), "done")


\* --------------------------------------------------------- get_job_status
\* GET /status/{job_id} arrives.
receive_status(job_id) ==
    /\ ev.op = "idle"
    /\ ev' = [EvIdle EXCEPT !.op = "status", !.pc = "L181", !.job_id = job_id]
    /\ http' = NoResponse
    /\ seen' = IF job_id \in DOMAIN registry THEN {registry[job_id]} ELSE {}
    /\ UNCHANGED <<registry, keys, generated, uuidUnique, threads, twrites,
                   effects>>

\* A variant that answers an unknown identifier with a fresh default record.
get_job_status_L181_default ==
    /\ ev.op = "status" /\ ev.pc = "L181"
    /\ IF ev.job_id \notin DOMAIN registry
       THEN /\ registry' = SetItem(registry, ev.job_id, QueuedRecord)
            /\ keys' = KeysAfter(keys, registry, ev.job_id)
            /\ http' = [Response("status", 200) EXCEPT !.job_id = ev.job_id]
            /\ ev' = EvIdle
       ELSE /\ ev' = [ev EXCEPT !.pc = "L186"]
            /\ UNCHANGED <<registry, keys, http>>
    /\ UNCHANGED <<generated, uuidUnique, threads, seen, twrites, effects>>

\* Lines 181-182: if job_id not in PROCESSING_JOBS: raise HTTPException(404)
get_job_status_L181 ==
    /\ ev.op = "status" /\ ev.pc = "L181"
    /\ IF ev.job_id \notin DOMAIN registry
       THEN /\ http' = [Response("status", 404) EXCEPT !.job_id = ev.job_id,
                                            !.message = "Job not found"]
            /\ ev' = EvIdle
       ELSE /\ ev' = [ev EXCEPT !.pc = "L186"]
            /\ http' = http
    /\ UNCHANGED <<registry, keys, generated, uuidUnique, threads, seen,
                   twrites, effects>>

\* Line 186: "status": PROCESSING_JOBS[job_id]["status"]
get_job_status_L186 ==
    /\ ev.op = "status" /\ ev.pc = "L186"
    /\ ev' = [ev EXCEPT !.pc = "L187", !.status = registry[ev.job_id].status]
    /\ UNCHANGED <<registry, keys, generated, uuidUnique, threads, http, seen,
                   twrites, effects>>

\* Line 187: "message": PROCESSING_JOBS[job_id]["message"]
get_job_status_L187 ==
    /\ ev.op = "status" /\ ev.pc = "L187"
    /\ ev' = [ev EXCEPT !.pc = "L188", !.message = registry[ev.job_id].message]
    /\ UNCHANGED <<registry, keys, generated, uuidUnique, threads, http, seen,
                   twrites, effects>>

\* Lines 188-189: "output_path": PROCESSING_JOBS[job_id]["output_path"]; return
get_job_status_L188 ==
    /\ ev.op = "status" /\ ev.pc = "L188"
    /\ http' = [Response("status", 200) EXCEPT
                  !.job_id = ev.job_id, !.status = ev.status,
                  !.message = ev.message,
                  !.output_path = registry[ev.job_id].output_path]
    /\ ev' = EvIdle
    /\ UNCHANGED <<registry, keys, generated, uuidUnique, threads, seen,
                   twrites, effects>>

\* -------------------------------------------------------------- list_jobs
\* GET /jobs arrives.
receive_jobs ==
    /\ ev.op = "idle"
    /\ ev' = [EvIdle EXCEPT !.op = "jobs", !.pc = "L194"]
    /\ http' = NoResponse
    /\ seen' = {registry}
    /\ UNCHANGED <<registry, keys, generated, uuidUnique, threads, twrites,
                   effects>>

\* Line 194: return PROCESSING_JOBS -- the dict itself, not a copy.  The
\* response is then built from that live dict, entry by entry.
list_jobs_L194 ==
    /\ ev.op = "jobs" /\ ev.pc = "L194"
    /\ ev' = [ev EXCEPT !.pc = "encode", !.idx = 1]
    /\ UNCHANGED <<registry, keys, generated, uuidUnique, threads, http, seen,
                   twrites, effects>>

\* The response body is read off the returned dict in iteration order; after
\* the last entry it is delivered.
list_jobs_encode ==
    /\ ev.op = "jobs" /\ ev.pc = "encode"
    /\ IF ev.idx <= Len(keys)
       THEN /\ ev' = [ev EXCEPT !.idx = @ + 1,
                        !.result = SetItem(@, keys[ev.idx], registry[keys[ev.idx]])]
            /\ http' = http
       ELSE /\ http' = [Response("jobs", 200) EXCEPT !.jobs = ev.result]
            /\ ev' = EvIdle
    /\ UNCHANGED <<registry, keys, generated, uuidUnique, threads, seen,
                   twrites, effects>>

\* ------------------------------------------------------------------ system
Init ==
    /\ registry = <<>>
    /\ keys = <<>>
    /\ generated = {}
    /\ uuidUnique = TRUE
    /\ threads = <<>>
    /\ ev = EvIdle
    /\ http = NoResponse
    /\ seen = {}
    /\ twrites = [j \in JobIds |-> 0]
    /\ fs = {}
    /\ returned = {}
    /\ spawns = [j \in JobIds |-> 0]
    /\ cfgwrites = [j \in JobIds |-> 0]

\* The same program when uuid4 happens to repeat a value.
InitUuidCollision ==
    /\ registry = <<>>
    /\ keys = <<>>
    /\ generated = {}
    /\ uuidUnique = FALSE
    /\ threads = <<>>
    /\ ev = EvIdle
    /\ http = NoResponse
    /\ seen = {}
    /\ twrites = [j \in JobIds |-> 0]
    /\ fs = {}
    /\ returned = {}
    /\ spawns = [j \in JobIds |-> 0]
    /\ cfgwrites = [j \in JobIds |-> 0]

\* Requests arriving from clients.
Receive ==
    \/ \E p \in InputPaths, c \in Configs, m \in Modes : receive_process(p, c, m)
    \/ \E j \in JobIds : receive_status(j)
    \/ receive_jobs

\* The steps of the handler in progress on the event loop.
EventLoopStep ==
    \/ start_processing_L139
    \/ start_processing_L163
    \/ start_processing_L170
    \/ start_processing_L174
    \/ start_processing_L175
    \/ get_job_status_L181
    \/ get_job_status_L186
    \/ get_job_status_L187
    \/ get_job_status_L188
    \/ list_jobs_L194
    \/ list_jobs_encode

\* The steps the worker thread running background task t takes by itself.
ThreadStep(t) ==
    \/ run_colmap_script_L54(t)
    \/ run_colmap_script_L76(t)
    \/ run_colmap_script_L79(t)
    \/ run_colmap_script_L92(t)

Next ==
    \/ Receive
    \/ EventLoopStep
    \/ \E t \in 1..MaxJobs : ThreadStep(t)
    \/ \E t \in 1..MaxJobs : subprocess_run_returns(t)

Spec == Init /\ [][Next]_vars

SpecUuidCollision == InitUuidCollision /\ [][Next]_vars

\* The event loop runs the handler in progress to its end, and every worker
\* thread is scheduled; nothing makes a client send a request, and nothing
\* makes an external process exit that does not exit by itself.
SpecFair ==
    /\ Init /\ [][Next]_vars
    /\ WF_vars(EventLoopStep)
    /\ \A t \in 1..MaxJobs : WF_vars(ThreadStep(t))


\* ================================================================ claims
\* The task scheduled for identifier j, the job's status being terminal, and
\* the positions of the job's background execution.
TasksOf(j) == {t \in 1..Len(threads) : threads[t].job_id = j}
Submitted(j) == TasksOf(j) # {}
TerminalJob(j) == j \in DOMAIN registry /\ Terminal(registry[j])
Waiting(j) == \E t \in TasksOf(j) : threads[t].pc = "wait"
ProcessExited(j) == \E t \in TasksOf(j) : threads[t].pc = "L79"

\* C1: in every reachable state, every record of the registry has an
\* output_path (not None) if and only if its status is "completed".
C1_OutputPathIffCompleted ==
    \A j \in DOMAIN registry :
        (registry[j].output_path # None) <=> (registry[j].status = "completed")

\* A completed job and a failed job are in the registry together.
C1_Witness ==
    \E j, k \in DOMAIN registry :
        /\ registry[j].status = "completed"
        /\ registry[k].status = "failed"

\* C2: once a job's record is "completed" or "failed", no step of any
\* operation (submission, background execution, status query, listing)
\* changes that job's status.
C2_TerminalStatusIsStable ==
    [][\A j \in DOMAIN registry :
          Terminal(registry[j]) =>
              /\ j \in DOMAIN registry'
              /\ registry'[j].status = registry[j].status]_vars

\* Job 1 is terminal, a later job was submitted and has finished too, and a
\* listing has been served since.
C2_Witness ==
    /\ TerminalJob(1)
    /\ TerminalJob(2)
    /\ http.op = "jobs" /\ http.code = 200

\* C3: the {status, message, output_path} a status query returns for a known
\* job is a record the registry held for that job at one moment of the query.
C3_StatusIsConsistentSnapshot ==
    (http.op = "status" /\ http.code = 200) =>
        [status |-> http.status, message |-> http.message,
         output_path |-> http.output_path] \in seen

\* C4 (as claimed): every submitted job eventually is "completed" or "failed".
C4_EventuallyTerminal ==
    \A j \in JobIds : Submitted(j) ~> TerminalJob(j)

\* C4 (amended): every submitted job eventually is terminal or is blocked in
\* subprocess.run on an external process that has not exited, and once that
\* process has exited the job eventually is terminal.
C4_TerminalUnlessProcessRuns ==
    \A j \in JobIds :
        /\ Submitted(j) ~> (TerminalJob(j) \/ Waiting(j))
        /\ ProcessExited(j) ~> TerminalJob(j)

\* One job failed through its process's exit code, one through an exception
\* caught at the launch.
C4_Witness ==
    \E j, k \in DOMAIN registry :
        /\ registry[j].message = MsgStderr
        /\ registry[k].message = MsgLaunchError

\* C5: the step at which a submission with a nonexistent input_path fails
\* answers with an error carrying no job identifier, schedules no background
\* task and leaves the registry as it was.
C5_MissingInputLeavesNoTrace ==
    [][(ev.op = "process" /\ ev.pc = "L139" /\ ev.input_path = "missing"
          /\ ev' # ev) =>
          /\ ev' = EvIdle
          /\ http'.code = 500 /\ http'.job_id = 0
          /\ threads' = threads
          /\ registry' = registry /\ keys' = keys]_vars

\* A submission has just failed while the registry holds a job.
C5_Witness ==
    /\ http.op = "process" /\ http.code = 500
    /\ DOMAIN registry # {}

\* C6: when a successful submission returns, its response carries status
\* "queued" and the job's background task has not even started, so its
\* external process has not terminated.
C6_SubmissionReturnsQueued ==
    [][(ev.op = "process" /\ ev.pc = "L175" /\ ev' # ev) =>
          /\ http'.code = 200 /\ http'.job_id = ev.job_id
          /\ http'.status = "queued"
          /\ \A t \in TasksOf(ev.job_id) : threads[t].pc = "added"]_vars

\* A submission has returned for job 2 while job 1 is already terminal.
C6_Witness ==
    /\ http.op = "process" /\ http.code = 200 /\ http.job_id = 2
    /\ TerminalJob(1)

\* C7: a status query for an identifier that is no key of the registry ends
\* with 404 and leaves the registry unchanged.
C7_UnknownJobIs404 ==
    [][(ev.op = "status" /\ ev.pc = "L181" /\ ev.job_id \notin DOMAIN registry
          /\ ev' # ev) =>
          /\ ev' = EvIdle
          /\ http'.code = 404
          /\ registry' = registry /\ keys' = keys]_vars

\* A 404 has been served while the registry holds another job.
C7_Witness ==
    /\ http.op = "status" /\ http.code = 404
    /\ DOMAIN registry # {}
    /\ http.job_id \notin DOMAIN registry

C9_DuplicateIdIsRejected ==
    [][(ev.op = "process" /\ ev.pc = "L163" /\ ev.job_id \in DOMAIN registry
          /\ ev' # ev) =>
          /\ registry' = registry
          /\ ev' = EvIdle
          /\ http'.code # 200]_vars

\* C10: the mapping a listing delivers is the registry's content at one moment
\* of the listing.
C10_ListingIsSnapshot ==
    (http.op = "jobs" /\ http.code = 200) => http.jobs \in seen


\* The identifier of the submission being served, once line 163 has stored
\* its record and until its response is returned.
InFlight ==
    IF ev.op = "process" /\ ev.pc \in {"L170", "L174", "L175"}
    THEN {ev.job_id} ELSE {}

StoredStatuses == {"queued", "completed", "failed"}

\* The paths an argument vector names for its job (the script, element 1, is
\* common to all jobs).
CmdPaths(cmd) ==
    IF cmd = <<>> THEN {}
    ELSE {cmd[4], cmd[6], cmd[8]} \cup (IF Len(cmd) > 14 THEN {cmd[Len(cmd)]} ELSE {})

\* The paths job j is using: what was created in the filesystem for it, what
\* the argument vector of its task names, and the output_path of its record.
UsedPaths(j) ==
    {f.path : f \in {g \in fs : g.job = j}}
    \cup UNION {CmdPaths(threads[t].cmd) : t \in TasksOf(j)}
    \cup (IF j \in DOMAIN registry /\ registry[j].output_path # None
          THEN {registry[j].output_path} ELSE {})

\* C11: while no submission is in progress the key set of the registry is the
\* set of identifiers successful submissions have returned (a submission in
\* progress past line 163 adds its own, which it then returns), and a listing
\* delivers exactly those keys.
C11_KeysAreReturnedJobs ==
    /\ DOMAIN registry = returned \cup InFlight
    /\ (http.op = "jobs" /\ http.code = 200) => DOMAIN http.jobs = returned

\* A listing was served after one submission succeeded and another failed.
C11_Witness ==
    /\ http.op = "jobs" /\ http.code = 200
    /\ returned # {}
    /\ generated # returned

\* C12: the paths used by two distinct jobs are disjoint: none of one job
\* equals or lies inside one of the other, and each job only uses its own
\* ingest, workspace and output directory and its own config file.
C12_JobPathsAreDisjoint ==
    \A i \in JobIds :
        /\ UsedPaths(i) \subseteq
             { INGEST_DIR \o <<JobIdStr(i)>>, COLMAP_WORKSPACE \o <<JobIdStr(i)>>,
               NERFSTUDIO_OUTPUT \o <<JobIdStr(i)>>,
               COLMAP_WORKSPACE \o <<"config_" \o JobIdStr(i) \o ".json">> }
        /\ \A j \in JobIds \ {i} :
              \A p \in UsedPaths(i), q \in UsedPaths(j) : ~IsPrefix(p, q)

\* Two external processes run at once, each with a config file of its own.
C12_Witness ==
    /\ Len(threads) = 2
    /\ \A t \in 1..2 : threads[t].pc = "wait" /\ Len(threads[t].cmd) = 16
    /\ threads[1].job_id # threads[2].job_id

\* C13: the step that stores the terminal record stores, for return code 0,
\* "completed" with the success message and the job's own output directory;
\* for another return code, "failed" with the captured stderr and no path; for
\* a caught exception, "failed" with its text and no path.  A step that raises
\* takes the task to the except clause, never out of the function.
C13_TerminalRecordFollowsOutcome ==
    [][\A t \in 1..Len(threads) :
         LET th == threads[t]
             j == th.job_id
         IN  /\ (th.pc = "L79" /\ threads'[t] # th) =>
                   registry'[j] =
                     IF th.returncode = 0
                     THEN [status |-> "completed", message |-> MsgCompleted,
                           output_path |-> NERFSTUDIO_OUTPUT \o <<JobIdStr(j)>>]
                     ELSE [status |-> "failed", message |-> th.stderr,
                           output_path |-> None]
             /\ (th.pc = "L92" /\ threads'[t] # th) =>
                   registry'[j] = [status |-> "failed", message |-> th.e,
                                   output_path |-> None]
             /\ (th.pc \in {"added", "L76"} /\ threads'[t] # th) =>
                   /\ threads'[t].pc \in {"L76", "wait", "L92"}
                   /\ threads'[t].pc = "L92" =>
                        threads'[t].e \in {MsgConfigError, MsgLaunchError}]_vars

\* One job completed and one failed on an exception of the config write.
C13_Witness ==
    \E j, k \in DOMAIN registry :
        /\ registry[j].status = "completed"
        /\ registry[k].message = MsgConfigError

\* C14: a step of a background task, and the registration of a submission,
\* leave the records of all other jobs as they are; the task's terminal write
\* gives the task's own job the status of the task's own outcome.
C14_WritesAreIndependent ==
    [][/\ \A t \in 1..Len(threads) :
            threads'[t] # threads[t] =>
               /\ \A k \in DOMAIN registry \ {threads[t].job_id} :
                     k \in DOMAIN registry' /\ registry'[k] = registry[k]
               /\ threads[t].pc \in {"L79", "L92"} =>
                     registry'[threads[t].job_id].status =
                        IF threads[t].pc = "L79" /\ threads[t].returncode = 0
                        THEN "completed" ELSE "failed"
       /\ (ev.op = "process" /\ ev' # ev) =>
               \A k \in DOMAIN registry \ {ev'.job_id} :
                     k \in DOMAIN registry' /\ registry'[k] = registry[k]]_vars

\* The job submitted second is terminal while the first one is still queued
\* with its process running.
C14_Witness ==
    /\ TerminalJob(2)
    /\ 1 \in DOMAIN registry /\ registry[1].status = "queued"
    /\ Waiting(1)

\* C15: a background task only exists for a registered identifier, and until
\* the task has made its terminal write the record is the queued record: the
\* terminal write replaces a queued record and never creates one.
C15_QueuedBeforeExecution ==
    \A t \in 1..Len(threads) :
        LET j == threads[t].job_id
        IN  /\ j \in DOMAIN registry
            /\ threads[t].pc # "done" => registry[j] = QueuedRecord /\ twrites[j] = 0

\* A task is at its terminal write, its record still queued, while the other
\* task has finished.
C15_Witness ==
    \E t, u \in 1..Len(threads) :
        /\ threads[t].pc = "L79"
        /\ registry[threads[t].job_id].status = "queued"
        /\ threads[u].pc = "done"

\* C16 (as claimed): every config file lies inside the workspace directory of
\* the job it was written for (COLMAP_WORKSPACE joined with the job id).
C16_ConfigInsideOwnWorkspace ==
    \A f \in fs : f.kind = "file" => IsPrefix(WorkspaceDir(f.job), f.path)

\* C16 (amended): every config file is COLMAP_WORKSPACE/config_<job id>.json,
\* directly under the workspace root beside the job's workspace directory; no
\* other job uses that path, and the file is there before the argument vector
\* is built.
C16_ConfigBesideOwnWorkspace ==
    /\ \A f \in fs : f.kind = "file" =>
          /\ f.path = COLMAP_WORKSPACE \o <<"config_" \o JobIdStr(f.job) \o ".json">>
          /\ \A j \in JobIds \ {f.job} :
                \A q \in UsedPaths(j) : ~IsPrefix(q, f.path) /\ ~IsPrefix(f.path, q)
    /\ \A t \in 1..Len(threads) :
          (threads[t].config_file # None \/ Len(threads[t].cmd) > 14) =>
              \E f \in fs : /\ f.kind = "file" /\ f.job = threads[t].job_id
                            /\ threads[t].config_file = f.path

\* Both jobs have their config files written, one task about to build its
\* argument vector and one running its process.
C16_Witness ==
    /\ Cardinality({f \in fs : f.kind = "file"}) = 2
    /\ \E t, u \in 1..Len(threads) :
          threads[t].pc = "L76" /\ threads[u].pc = "wait"

\* C17: a task whose config is missing or empty writes no config file and its
\* argument vector has the 14 fixed elements, none of them --config; a task
\* whose config is non-empty has written the file when the process is
\* launched and its argument vector ends with --config and the file's path.
C17_ConfigArgumentFollowsConfig ==
    \A t \in 1..Len(threads) :
        LET th == threads[t]
            j == th.job_id
        IN  /\ (th.pc \in {"added", "L76", "wait"} /\ th.config # "nonempty") =>
                 /\ cfgwrites[j] = 0
                 /\ ~\E f \in fs : f.kind = "file" /\ f.job = j
            /\ (th.pc = "wait" /\ th.config # "nonempty") =>
                 /\ Len(th.cmd) = 14
                 /\ \A i \in 1..Len(th.cmd) : th.cmd[i] # <<"--config">>
            /\ (th.pc = "wait" /\ th.config = "nonempty") =>
                 /\ Len(th.cmd) = 16
                 /\ th.cmd[15] = <<"--config">>
                 /\ th.cmd[16] =
                      COLMAP_WORKSPACE \o <<"config_" \o JobIdStr(j) \o ".json">>
                 /\ \E f \in fs : f.kind = "file" /\ f.path = th.cmd[16]

\* A process launched for an empty config runs beside one launched for a
\* non-empty config.
C17_Witness ==
    \E t, u \in 1..Len(threads) :
        /\ threads[t].pc = "wait" /\ threads[t].config = "empty"
        /\ threads[u].pc = "wait" /\ threads[u].config = "nonempty"

\* C18 (as claimed): an invocation that has returned has spawned exactly one
\* external process.
C18_ExactlyOneProcess ==
    \A t \in 1..Len(threads) :
        threads[t].pc = "done" => spawns[threads[t].job_id] = 1

\* C18 (amended): an invocation spawns at most one external process and writes
\* at most one config file; it has spawned exactly one when its process runs
\* or has exited, and none when the config write or the launch raised.
C18_AtMostOneProcess ==
    \A t \in 1..Len(threads) :
        LET th == threads[t]
            j == th.job_id
        IN  /\ spawns[j] <= 1
            /\ cfgwrites[j] <= 1
            /\ th.pc \in {"added", "L76"} => spawns[j] = 0
            /\ th.pc \in {"wait", "L79"} => spawns[j] = 1
            /\ th.pc = "L92" => spawns[j] = 0
            /\ th.pc = "done" =>
                 (spawns[j] = 1 <=>
                    registry[j].message \notin {MsgConfigError, MsgLaunchError})

\* Both invocations have returned, one after its process exited non-zero and
\* one without ever spawning a process.
C18_Witness ==
    /\ Len(threads) = 2
    /\ \A t \in 1..2 : threads[t].pc = "done"
    /\ \E j, k \in JobIds :
          /\ spawns[j] = 1 /\ registry[j].status = "failed"
          /\ spawns[k] = 0

\* C19: every stored and every reported status is "queued", "completed" or
\* "failed" -- never "running" -- and a job whose external process is running
\* is "queued".
C19_RunningIsNeverStored ==
    /\ \A j \in DOMAIN registry : registry[j].status \in StoredStatuses
    /\ \A t \in 1..Len(threads) :
          threads[t].pc = "wait" => registry[threads[t].job_id].status = "queued"
    /\ (http.code = 200 /\ http.op \in {"process", "status"}) =>
          http.status \in StoredStatuses
    /\ (http.code = 200 /\ http.op = "jobs") =>
          \A j \in DOMAIN http.jobs : http.jobs[j].status \in StoredStatuses

\* A status query has answered "queued" for a job whose process is running.
C19_Witness ==
    /\ http.op = "status" /\ http.code = 200 /\ http.status = "queued"
    /\ Waiting(http.job_id)

====
